---- MODULE Spec2Model ----
(***************************************************************************)
(* Model of the two administrative scripts of the exercise catalogue:      *)
(*   - the loader (populate script): reads exercises.json, maps every      *)
(*     record to a table row, filters the rows whose exercise_id the       *)
(*     store already holds and inserts the rest in batches;                *)
(*   - the activator (activate-basic-exercises.ts): for every name of      *)
(*     BASIC_EXERCISES searches the inactive rows by case-insensitive      *)
(*     substring and sets is_active on the first row returned.             *)
(* The remote store is the variable store; every call on it has an         *)
(* outcome chosen by the environment: "ok", "error" (the client returns    *)
(* { error }) or "throw" (the awaited call rejects).                        *)
(* Strings that the code only copies or concatenates are TLA+ strings;     *)
(* exercise names, which the store matches by ilike, are sequences of      *)
(* one-character strings.                                                  *)
(***************************************************************************)
EXTENDS Integers, Sequences, FiniteSets, TLC

(***************************************************************************)
(* Bounds of the model.                                                    *)
(***************************************************************************)
\* longest exercises.json the loader is run against
MaxFileLen == 2
\* longest row list handed directly to insertExercisesInBatches
MaxRows == 4
\* largest batchSize handed directly to insertExercisesInBatches
MaxBatch == 3

\* insertExercisesInBatches(exercises, batchSize = 100)
DefaultBatchSize == 100

(***************************************************************************)
(* Helpers on sequences.                                                   *)
(***************************************************************************)
Min(a, b) == IF a < b THEN a ELSE b

Range(s) == { s[k] : k \in 1..Len(s) }

\* all sequences over S of length at most n
RECURSIVE SeqsUpTo(_, _)
SeqsUpTo(S, n) ==
  IF n = 0 THEN { <<>> }
  ELSE LET shorter == SeqsUpTo(S, n - 1)
       IN  shorter \cup { Append(s, x) : s \in { t \in shorter : Len(t) = n - 1 }, x \in S }

\* Array.prototype.slice(a, b) for 0 <= a <= b
Slice(s, a, b) == SubSeq(s, a + 1, Min(b, Len(s)))

\* Array.prototype.includes
Includes(s, x) == \E k \in 1..Len(s) : s[k] = x

(***************************************************************************)
(* Character strings, for ilike.                                           *)
(***************************************************************************)
UpperAlpha ==
  << "A","B","C","D","E","F","G","H","I","J","K","L","M",
     "N","O","P","Q","R","S","T","U","V","W","X","Y","Z" >>
LowerAlpha ==
  << "a","b","c","d","e","f","g","h","i","j","k","l","m",
     "n","o","p","q","r","s","t","u","v","w","x","y","z" >>

LowerChar(c) ==
  IF \E k \in 1..26 : UpperAlpha[k] = c
  THEN LowerAlpha[CHOOSE k \in 1..26 : UpperAlpha[k] = c]
  ELSE c

LowerStr(s) == [ k \in 1..Len(s) |-> LowerChar(s[k]) ]

\* sub occurs in s as a contiguous substring
Contains(s, sub) ==
  \E off \in 0..(Len(s) - Len(sub)) : SubSeq(s, off + 1, off + Len(sub)) = sub

\* name ILIKE '%pattern%' (the patterns hold neither % nor _)
ILikeContains(name, pattern) == Contains(LowerStr(name), LowerStr(pattern))

(***************************************************************************)
(* The activator's fixed list.                                             *)
(***************************************************************************)
BASIC_EXERCISES ==
  << <<"p","u","s","h"," ","u","p">>,
     <<"b","e","n","c","h"," ","p","r","e","s","s">>,
     <<"c","h","e","s","t"," ","p","r","e","s","s">>,
     <<"c","h","e","s","t"," ","f","l","y">>,
     <<"p","u","l","l"," ","u","p">>,
     <<"l","a","t"," ","p","u","l","l","d","o","w","n">>,
     <<"b","a","r","b","e","l","l"," ","r","o","w">>,
     <<"s","e","a","t","e","d"," ","r","o","w">>,
     <<"s","q","u","a","t">>,
     <<"d","e","a","d","l","i","f","t">>,
     <<"l","u","n","g","e">>,
     <<"l","e","g"," ","p","r","e","s","s">>,
     <<"c","a","l","f"," ","r","a","i","s","e">>,
     <<"s","h","o","u","l","d","e","r"," ","p","r","e","s","s">>,
     <<"l","a","t","e","r","a","l"," ","r","a","i","s","e">>,
     <<"r","e","a","r"," ","d","e","l","t"," ","f","l","y">>,
     <<"b","i","c","e","p"," ","c","u","r","l">>,
     <<"t","r","i","c","e","p"," ","e","x","t","e","n","s","i","o","n">>,
     <<"h","a","m","m","e","r"," ","c","u","r","l">>,
     <<"p","l","a","n","k">>,
     <<"c","r","u","n","c","h">>,
     <<"r","u","s","s","i","a","n"," ","t","w","i","s","t">>,
     <<"m","o","u","n","t","a","i","n"," ","c","l","i","m","b","e","r">> >>

(***************************************************************************)
(* Source records (ExerciseData).  A list attribute the JSON object lacks  *)
(* is a field the record lacks.                                            *)
(***************************************************************************)
ListFields ==
  { "targetMuscles", "bodyParts", "equipments", "secondaryMuscles", "instructions" }

SourcePool ==
  { [ exerciseId |-> "e1",
      name |-> <<"P","u","s","h"," ","U","p">>,
      gifUrl |-> "https://cdn/e1.gif",
      targetMuscles |-> <<"chest">>,
      bodyParts |-> <<>>,
      equipments |-> <<>>,
      secondaryMuscles |-> <<>>,
      instructions |-> <<"step1">> ],
    [ exerciseId |-> "e2",
      name |-> <<"W","i","d","e"," ","P","U","S","H"," ","U","P">>,
      gifUrl |-> "https://cdn/e2.gif",
      bodyParts |-> <<"chest">>,
      equipments |-> <<"body weight">>,
      secondaryMuscles |-> <<"triceps">> ],
    [ exerciseId |-> "e3",
      name |-> <<"P","l","a","n","k">>,
      gifUrl |-> "https://cdn/e3.gif" ] }

\* the arrays exercises.json may hold
Files == SeqsUpTo(SourcePool, MaxFileLen)

(***************************************************************************)
(* mapExerciseToDatabase                                                   *)
(***************************************************************************)
\* exercise.<field> || []
OrEmpty(exercise, field) ==
  IF field \in DOMAIN exercise THEN exercise[field] ELSE <<>>

mapExerciseToDatabaseActive(exercise) ==
  [ exercise_id |-> exercise.exerciseId,
    name |-> exercise.name,
    gif_path |-> "gifs/" \o (exercise.exerciseId \o ".gif"),
    target_muscles |-> OrEmpty(exercise, "targetMuscles"),
    body_parts |-> OrEmpty(exercise, "bodyParts"),
    equipments |-> OrEmpty(exercise, "equipments"),
    secondary_muscles |-> OrEmpty(exercise, "secondaryMuscles"),
    instructions |-> OrEmpty(exercise, "instructions"),
    is_active |-> TRUE ]

mapExerciseToDatabase(exercise) ==
  LET gifFileName == exercise.exerciseId \o ".gif"
      gif_path == "gifs/" \o gifFileName
  IN  [ exercise_id |-> exercise.exerciseId,
        name |-> exercise.name,
        gif_path |-> gif_path,
        target_muscles |-> OrEmpty(exercise, "targetMuscles"),
        body_parts |-> OrEmpty(exercise, "bodyParts"),
        equipments |-> OrEmpty(exercise, "equipments"),
        secondary_muscles |-> OrEmpty(exercise, "secondaryMuscles"),
        instructions |-> OrEmpty(exercise, "instructions"),
        is_active |-> FALSE ]

\* jsonExercises.map(mapExerciseToDatabase)
MapExercises(s) == [ k \in 1..Len(s) |-> mapExerciseToDatabase(s[k]) ]

\* the row lists insertExercisesInBatches is handed directly
RowLists == SeqsUpTo({ mapExerciseToDatabase(e) : e \in SourcePool }, MaxRows)

(***************************************************************************)
(* State.                                                                  *)
(***************************************************************************)
VARIABLES
  store,              \* the exercises table: rows in insertion order; a row's id is its position
  script,             \* "none", "loader", "activator" or "direct"
  pc,                 \* where the running script stands
  exitCode,           \* the process's exit status, -1 while it runs
  config,             \* whether both environment values are set
  thrown,             \* an exception reached the script's top-level catch
  file,               \* the array exercises.json holds in this run
  storeAtStart,       \* the table when the run started
  selectOutcome,      \* outcome of checkExistingExercises' select, "none" before it
  existingExercises,  \* main: what checkExistingExercises returned
  fileRead,           \* main: loadExercisesFromJSON: "none" before it, then "ok" or "failed"
  jsonExercises,      \* main: the records read
  databaseExercises,  \* main: the records mapped
  exercises,          \* insertExercisesInBatches: its parameter
  batchSize,          \* insertExercisesInBatches: its parameter
  i,                  \* insertExercisesInBatches: loop index
  insertedCount,
  errorCount,
  insertCalls,        \* the insert calls of this run: [i, batch, outcome]
  summary,            \* main: the SAMMENDRAG printed, <<>> before
  idx,                \* activator: position in BASIC_EXERCISES (1-based)
  exercise,           \* activator: <<exercises[0]>> of the last search, <<>> if none
  lastSearch,         \* activator: outcome of the latest search, "none" before the first
  searchLog,          \* activator: the names searched in this run
  updateLog,          \* activator: the update calls of this run: [idx, id, outcome]
  countQueried        \* activator: the final count query was issued

storeVars == << store >>
procVars == << script, pc, exitCode, config, thrown, storeAtStart >>
mainVars ==
  << file, selectOutcome, existingExercises, fileRead, jsonExercises, databaseExercises, summary >>
batchVars == << exercises, batchSize, i, insertedCount, errorCount, insertCalls >>
actVars == << idx, exercise, lastSearch, searchLog, updateLog, countQueried >>
vars == << storeVars, procVars, mainVars, batchVars, actVars >>

Outcomes == { "ok", "error", "throw" }

(***************************************************************************)
(* The store (external collaborator).                                      *)
(***************************************************************************)
\* .select('exercise_id'): one value per row
StoreIds(st) == [ k \in 1..Len(st) |-> st[k].exercise_id ]

\* the table's uniqueness constraint on exercise_id
UniqueViolation(st, batch) ==
  \/ \E k \in 1..Len(batch) : Includes(StoreIds(st), batch[k].exercise_id)
  \/ \E k, l \in 1..Len(batch) : k # l /\ batch[k].exercise_id = batch[l].exercise_id

\* .insert(batch): the rows are appended, the store gives each its id
InsertRows(st, batch) ==
  st \o [ k \in 1..Len(batch) |-> [ id |-> Len(st) + k ] @@ batch[k] ]

\* .select('id, name, exercise_id').ilike('name', `%${exerciseName}%`): all rows
SearchAnyStatus(exerciseName, st) ==
  { [ id |-> r.id, name |-> r.name, exercise_id |-> r.exercise_id ] :
      r \in { q \in Range(st) : ILikeContains(q.name, exerciseName) } }

\* .select('id, name, exercise_id').ilike('name', `%${exerciseName}%`).eq('is_active', false)
SearchInactive(exerciseName, st) ==
  { [ id |-> r.id, name |-> r.name, exercise_id |-> r.exercise_id ] :
      r \in { q \in Range(st) : ILikeContains(q.name, exerciseName) /\ q.is_active = FALSE } }

\* .update({ is_active: true }) with no filter
UpdateActiveAll(st, id) == [ k \in 1..Len(st) |-> [ st[k] EXCEPT !.is_active = TRUE ] ]

\* .update({ is_active: true }).eq('id', exercise.id)
UpdateActive(st, id) ==
  [ k \in 1..Len(st) |-> IF st[k].id = id THEN [ st[k] EXCEPT !.is_active = TRUE ] ELSE st[k] ]

(***************************************************************************)
(* Initial state: nothing runs, the table is empty.                        *)
(***************************************************************************)
FreshMain ==
  /\ selectOutcome' = "none"
  /\ existingExercises' = <<>>
  /\ fileRead' = "none"
  /\ jsonExercises' = <<>>
  /\ databaseExercises' = <<>>
  /\ summary' = <<>>

FreshBatch ==
  /\ exercises' = <<>>
  /\ batchSize' = DefaultBatchSize
  /\ i' = 0
  /\ insertedCount' = 0
  /\ errorCount' = 0
  /\ insertCalls' = <<>>

FreshAct ==
  /\ idx' = 1
  /\ exercise' = <<>>
  /\ lastSearch' = "none"
  /\ searchLog' = <<>>
  /\ updateLog' = <<>>
  /\ countQueried' = FALSE

Init ==
  /\ store = <<>>
  /\ script = "none" /\ pc = "idle" /\ exitCode = -1 /\ config = FALSE /\ thrown = FALSE
  /\ storeAtStart = <<>>
  /\ file = <<>>
  /\ selectOutcome = "none" /\ existingExercises = <<>> /\ fileRead = "none"
  /\ jsonExercises = <<>> /\ databaseExercises = <<>> /\ summary = <<>>
  /\ exercises = <<>> /\ batchSize = DefaultBatchSize /\ i = 0
  /\ insertedCount = 0 /\ errorCount = 0 /\ insertCalls = <<>>
  /\ idx = 1 /\ exercise = <<>> /\ lastSearch = "none" /\ searchLog = <<>> /\ updateLog = <<>>
  /\ countQueried = FALSE

\* the process ends with the given status
Exit(code) == pc' = "exited" /\ exitCode' = code

(***************************************************************************)
(* Loader.                                                                 *)
(***************************************************************************)
\* a loader process starts: module level, the configuration check
RunLoader(cfg, f) ==
  /\ pc \in { "idle", "exited" }
  /\ script' = "loader" /\ config' = cfg /\ thrown' = FALSE
  /\ storeAtStart' = store
  /\ file' = f
  /\ FreshMain /\ FreshBatch /\ FreshAct
  /\ IF ~cfg THEN Exit(1) ELSE pc' = "probe" /\ exitCode' = -1
  /\ UNCHANGED storeVars

\* main: the connection test
Probe(outcome) ==
  /\ script = "loader" /\ pc = "probe"
  /\ CASE outcome = "ok" -> pc' = "check" /\ UNCHANGED << exitCode, thrown >>
       [] outcome = "error" -> Exit(0) /\ UNCHANGED thrown
       [] outcome = "throw" -> Exit(1) /\ thrown' = TRUE
  /\ UNCHANGED << storeVars, script, config, storeAtStart, mainVars, batchVars, actVars >>

\* checkExistingExercises without its try/catch
checkExistingExercisesUncaught(outcome, st) ==
  [ threw |-> outcome = "throw",
    value |-> IF outcome = "ok" THEN StoreIds(st) ELSE <<>> ]

\* checkExistingExercises that yields no identifier
checkExistingExercisesNone(outcome, st) == [ threw |-> FALSE, value |-> <<>> ]

\* checkExistingExercises: the identifiers selected; [] on error and on exception
checkExistingExercises(outcome, st) ==
  [ threw |-> FALSE,
    value |-> IF outcome = "ok" THEN StoreIds(st) ELSE <<>> ]

\* main: existingExercises = await checkExistingExercises()
CheckExisting(outcome) ==
  /\ script = "loader" /\ pc = "check"
  /\ LET r == checkExistingExercises(outcome, store)
     IN  /\ selectOutcome' = outcome
         /\ IF r.threw
            THEN Exit(1) /\ thrown' = TRUE /\ UNCHANGED existingExercises
            ELSE /\ existingExercises' = r.value
                 /\ pc' = "load"
                 /\ UNCHANGED << exitCode, thrown >>
  /\ UNCHANGED << storeVars, script, config, storeAtStart, file, fileRead, jsonExercises,
                  databaseExercises, summary, batchVars, actVars >>

\* databaseExercises unfiltered
FilterNewAll(rows, existing) == rows

\* databaseExercises.filter(ex => !existingExercises.includes(ex.exercise_id))
FilterNew(rows, existing) ==
  SelectSeq(rows, LAMBDA ex : ~Includes(existing, ex.exercise_id))

\* main: load the file, map, filter, and either return or call insertExercisesInBatches
LoadMapFilter(readOk) ==
  /\ script = "loader" /\ pc = "load"
  /\ IF ~readOk
     THEN /\ Exit(1) /\ thrown' = TRUE
          /\ fileRead' = "failed"
          /\ UNCHANGED << jsonExercises, databaseExercises, batchVars >>
     ELSE LET mapped == MapExercises(file)
              newExercises == FilterNew(mapped, existingExercises)
          IN  /\ fileRead' = "ok"
              /\ jsonExercises' = file
              /\ databaseExercises' = mapped
              /\ exercises' = newExercises
              /\ IF Len(newExercises) = 0
                 THEN Exit(0)
                 ELSE pc' = "insert" /\ UNCHANGED exitCode
              /\ batchSize' = DefaultBatchSize
              /\ i' = 0 /\ insertedCount' = 0 /\ errorCount' = 0
              /\ UNCHANGED << insertCalls, thrown >>
  /\ UNCHANGED << storeVars, script, config, storeAtStart, file, selectOutcome,
                  existingExercises, summary, actVars >>

\* errorCount += 1
AddFailedOne(count, batch) == count + 1

\* errorCount += batch.length
AddFailed(count, batch) == count + Len(batch)

\* i += batchSize + 1
NextIndexSkip(index, size) == index + size + 1

\* i += batchSize
NextIndex(index, size) == index + size

\* insertExercisesInBatches: one iteration of the loop (the pause included)
InsertBatch(outcome) ==
  /\ pc = "insert" /\ i < Len(exercises)
  /\ LET batch == Slice(exercises, i, i + batchSize)
     IN  /\ outcome = "ok" => ~UniqueViolation(store, batch)
         /\ insertCalls' = Append(insertCalls, [ i |-> i, batch |-> batch, outcome |-> outcome ])
         /\ IF outcome = "ok"
            THEN /\ store' = InsertRows(store, batch)
                 /\ insertedCount' = insertedCount + Len(batch)
                 /\ UNCHANGED errorCount
            ELSE /\ errorCount' = AddFailed(errorCount, batch)
                 /\ UNCHANGED << store, insertedCount >>
  /\ i' = NextIndex(i, batchSize)
  /\ UNCHANGED << procVars, mainVars, exercises, batchSize, actVars >>

\* insertExercisesInBatches: the loop ends, return { insertedCount, errorCount }
InsertReturn ==
  /\ pc = "insert" /\ i >= Len(exercises)
  /\ pc' = "returned"
  /\ UNCHANGED << storeVars, script, exitCode, config, thrown, storeAtStart, mainVars,
                  batchVars, actVars >>

\* main: print the summary; the process ends
Summary ==
  /\ script = "loader" /\ pc = "returned"
  /\ summary' = << [ inserted |-> insertedCount, failed |-> errorCount ] >>
  /\ Exit(0)
  /\ UNCHANGED << storeVars, script, config, thrown, storeAtStart, file, selectOutcome,
                  existingExercises, fileRead, jsonExercises, databaseExercises, batchVars,
                  actVars >>

(***************************************************************************)
(* Activator.                                                              *)
(***************************************************************************)
\* an activator process starts: module level, the configuration check
RunActivator(cfg) ==
  /\ pc \in { "idle", "exited" }
  /\ script' = "activator" /\ config' = cfg /\ thrown' = FALSE
  /\ storeAtStart' = store
  /\ file' = <<>>
  /\ FreshMain /\ FreshBatch /\ FreshAct
  /\ IF ~cfg THEN Exit(1) ELSE pc' = "search" /\ exitCode' = -1
  /\ UNCHANGED storeVars

\* the for-of loop moves to the name after index, or leaves the loop
LoopTo(index) ==
  /\ idx' = index
  /\ pc' = IF index > Len(BASIC_EXERCISES) THEN "count" ELSE "search"

\* if (searchError) break
AfterSearchErrorBreak(index) == Len(BASIC_EXERCISES) + 1

\* if (searchError) continue
AfterSearchError(index) == index + 1

\* one search of the loop, up to the continue or to the choice of exercises[0]
Search(outcome) ==
  /\ script = "activator" /\ pc = "search"
  /\ searchLog' = Append(searchLog, BASIC_EXERCISES[idx])
  /\ lastSearch' = outcome
  /\ CASE outcome = "throw" ->
            /\ Exit(0) /\ thrown' = TRUE
            /\ UNCHANGED << idx, exercise >>
       [] outcome = "error" ->
            /\ LoopTo(AfterSearchError(idx))
            /\ UNCHANGED << exitCode, thrown, exercise >>
       [] outcome = "ok" ->
            LET found == SearchInactive(BASIC_EXERCISES[idx], store)
            IN  IF found = {}
                THEN /\ LoopTo(idx + 1)
                     /\ UNCHANGED << exitCode, thrown, exercise >>
                ELSE \* the store returns the matches in an order of its choosing
                     \E first \in found :
                        /\ exercise' = << first >>
                        /\ pc' = "update"
                        /\ UNCHANGED << exitCode, thrown, idx >>
  /\ UNCHANGED << storeVars, script, config, storeAtStart, mainVars, batchVars, updateLog,
                  countQueried >>

\* the update of exercises[0], then the next name
Update(outcome) ==
  /\ script = "activator" /\ pc = "update"
  /\ updateLog' = Append(updateLog, [ idx |-> idx, id |-> exercise[1].id, outcome |-> outcome ])
  /\ store' = IF outcome = "ok" THEN UpdateActive(store, exercise[1].id) ELSE store
  /\ IF outcome = "throw"
     THEN Exit(0) /\ thrown' = TRUE /\ UNCHANGED idx
     ELSE LoopTo(idx + 1) /\ UNCHANGED << exitCode, thrown >>
  /\ UNCHANGED << script, config, storeAtStart, mainVars, batchVars, exercise, lastSearch,
                  searchLog, countQueried >>

\* the count of active rows and the closing message; the process ends
Count(outcome) ==
  /\ script = "activator" /\ pc = "count"
  /\ countQueried' = TRUE
  /\ thrown' = (outcome = "throw")
  /\ Exit(0)
  /\ UNCHANGED << storeVars, script, config, storeAtStart, mainVars, batchVars, idx,
                  exercise, lastSearch, searchLog, updateLog >>

(***************************************************************************)
(* Specifications.                                                         *)
(***************************************************************************)
\* any sequence of loader and activator runs, one at a time
Next ==
  \/ \E cfg \in BOOLEAN, f \in Files : RunLoader(cfg, f)
  \/ \E outcome \in Outcomes : Probe(outcome)
  \/ \E outcome \in Outcomes : CheckExisting(outcome)
  \/ \E readOk \in BOOLEAN : LoadMapFilter(readOk)
  \/ \E outcome \in Outcomes : InsertBatch(outcome)
  \/ InsertReturn
  \/ Summary
  \/ \E cfg \in BOOLEAN : RunActivator(cfg)
  \/ \E outcome \in Outcomes : Search(outcome)
  \/ \E outcome \in Outcomes : Update(outcome)
  \/ \E outcome \in Outcomes : Count(outcome)

Spec == Init /\ [][Next]_vars

\* insertExercisesInBatches called on any row list with any batch size, the table empty
InitBatch ==
  /\ store = <<>>
  /\ script = "direct" /\ pc = "insert" /\ exitCode = -1 /\ config = TRUE /\ thrown = FALSE
  /\ storeAtStart = <<>>
  /\ file = <<>>
  /\ selectOutcome = "none" /\ existingExercises = <<>> /\ fileRead = "none"
  /\ jsonExercises = <<>> /\ databaseExercises = <<>> /\ summary = <<>>
  /\ exercises \in RowLists /\ batchSize \in 1..MaxBatch /\ i = 0
  /\ insertedCount = 0 /\ errorCount = 0 /\ insertCalls = <<>>
  /\ idx = 1 /\ exercise = <<>> /\ lastSearch = "none" /\ searchLog = <<>> /\ updateLog = <<>>
  /\ countQueried = FALSE

NextBatch ==
  \/ \E outcome \in Outcomes : InsertBatch(outcome)
  \/ InsertReturn

SpecBatch == InitBatch /\ [][NextBatch]_vars

(***************************************************************************)
(* Properties.                                                             *)
(***************************************************************************)
\* the rows of the insert calls, in call order
RECURSIVE Flatten(_)
Flatten(calls) ==
  IF calls = <<>> THEN <<>>
  ELSE Flatten(SubSeq(calls, 1, Len(calls) - 1)) \o calls[Len(calls)].batch

\* the number of rows of the calls whose outcome is in outcomes
RECURSIVE RowsWith(_, _)
RowsWith(calls, outcomes) ==
  IF calls = <<>> THEN 0
  ELSE RowsWith(SubSeq(calls, 1, Len(calls) - 1), outcomes)
       + (IF calls[Len(calls)].outcome \in outcomes THEN Len(calls[Len(calls)].batch) ELSE 0)

CeilDiv(n, b) == (n + b - 1) \div b

\* the table held a row for every identifier of the file when the run started
FileHeld ==
  \A k \in 1..Len(file) :
    \E r \in 1..Len(storeAtStart) : storeAtStart[r].exercise_id = file[k].exerciseId

\* C1 as stated: a loader run against a table that holds a row for every
\* identifier of the file issues no insert call and leaves the table as it was.
C1_IdempotenceAsStated ==
  (script = "loader" /\ FileHeld) => (insertCalls = <<>> /\ store = storeAtStart)

\* C1 amended: a loader run against a table that holds a row for every
\* identifier of the file, and whose select of the existing identifiers
\* succeeds, issues no insert call and leaves the table as it was; once the
\* file is read the run has nothing left to insert and ends with status 0.
C1_Idempotence ==
  (script = "loader" /\ FileHeld /\ selectOutcome \in { "none", "ok" }) =>
    /\ insertCalls = <<>>
    /\ store = storeAtStart
    /\ fileRead = "ok" => (exercises = <<>> /\ pc = "exited" /\ exitCode = 0)

\* a second run over a file whose rows an earlier run inserted ended without an insert
C1_Witness ==
  /\ script = "loader" /\ pc = "exited" /\ fileRead = "ok" /\ selectOutcome = "ok"
  /\ Len(file) = MaxFileLen /\ FileHeld
  /\ insertCalls = <<>> /\ store = storeAtStart

\* C2: insertExercisesInBatches on N rows with batch size B >= 1 issues
\* ceil(N/B) insert calls of at most B rows each, and the calls in order carry
\* the N rows once each in the original order.
C2_Batching ==
  /\ \A c \in 1..Len(insertCalls) :
        Len(insertCalls[c].batch) >= 1 /\ Len(insertCalls[c].batch) <= batchSize
  /\ Flatten(insertCalls) = SubSeq(exercises, 1, Min(i, Len(exercises)))
  /\ pc = "returned" =>
        /\ Len(insertCalls) = CeilDiv(Len(exercises), batchSize)
        /\ Flatten(insertCalls) = exercises

\* a list that is no multiple of the batch size went out in two batches
C2_Witness ==
  /\ script = "direct" /\ pc = "returned"
  /\ Len(exercises) = MaxRows /\ batchSize = MaxBatch
  /\ Len(insertCalls) = 2
  /\ Len(insertCalls[2].batch) < batchSize

\* C3: whatever the outcomes of the batches, every batch is submitted once, at
\* its own offset, the failed count is the number of rows of the failed
\* batches and the inserted count the number of rows of the succeeded ones.
C3_PartialFailure ==
  /\ \A c \in 1..Len(insertCalls) : insertCalls[c].i = (c - 1) * batchSize
  /\ errorCount = RowsWith(insertCalls, { "error", "throw" })
  /\ insertedCount = RowsWith(insertCalls, { "ok" })
  /\ pc = "returned" =>
        /\ Len(insertCalls) = CeilDiv(Len(exercises), batchSize)
        /\ insertedCount + errorCount = Len(exercises)

\* a batch of two rows failed and a later batch was inserted
C3_Witness ==
  /\ script = "direct" /\ pc = "returned"
  /\ \E a, c \in 1..Len(insertCalls) :
        /\ a < c
        /\ insertCalls[a].outcome # "ok" /\ Len(insertCalls[a].batch) >= 2
        /\ insertCalls[c].outcome = "ok"
  /\ errorCount >= 2 /\ insertedCount >= 1

\* C4 as stated: no row of an insert call of the loader has an identifier the
\* table holds when the call is made.
C4_PrefilterAsStated ==
  [][ (script = "loader" /\ Len(insertCalls') = Len(insertCalls) + 1) =>
        \A k \in 1..Len(insertCalls'[Len(insertCalls')].batch) :
          \A r \in 1..Len(store) :
            store[r].exercise_id # insertCalls'[Len(insertCalls')].batch[k].exercise_id ]_vars

\* C4 amended: no row of an insert call of the loader has an identifier that
\* the run's select of the existing identifiers returned; when that select
\* succeeds these are the identifiers of every row the table held at the start
\* of the run.
C4_Prefilter ==
  script = "loader" =>
    \A c \in 1..Len(insertCalls) : \A k \in 1..Len(insertCalls[c].batch) :
      /\ \A e \in 1..Len(existingExercises) :
            existingExercises[e] # insertCalls[c].batch[k].exercise_id
      /\ selectOutcome = "ok" =>
            \A r \in 1..Len(storeAtStart) :
              storeAtStart[r].exercise_id # insertCalls[c].batch[k].exercise_id

\* a run whose select succeeded dropped a row of the file and submitted another
C4_Witness ==
  /\ script = "loader" /\ selectOutcome = "ok"
  /\ storeAtStart # <<>>
  /\ Len(exercises) >= 1 /\ Len(exercises) < Len(databaseExercises)
  /\ insertCalls # <<>> /\ insertCalls[1].outcome = "ok"

\* no inactive row of st has a name that holds exerciseName, whatever the case
NoInactiveMatch(exerciseName, st) ==
  \A r \in 1..Len(st) :
    st[r].is_active \/ ~Contains(LowerStr(st[r].name), LowerStr(exerciseName))

\* C5: a search of the activator that succeeds and matches no inactive row is
\* followed by no update call for that name: the loop moves to the next name
\* and the table is as it was.
C5_NoMatchFrame ==
  [][ ( /\ script = "activator" /\ pc = "search"
        /\ Len(searchLog') = Len(searchLog) + 1
        /\ lastSearch' = "ok"
        /\ NoInactiveMatch(BASIC_EXERCISES[idx], store) ) =>
      ( /\ store' = store
        /\ updateLog' = updateLog
        /\ pc' # "update"
        /\ idx' = idx + 1 ) ]_vars

\* a name that matched no inactive row was passed over while the table held inactive rows
C5_Witness ==
  /\ script = "activator" /\ pc = "search" /\ idx = 3
  /\ lastSearch = "ok"
  /\ NoInactiveMatch(BASIC_EXERCISES[2], store)
  /\ \E r \in 1..Len(store) : ~store[r].is_active
  /\ \A u \in 1..Len(updateLog) : updateLog[u].idx # 2
  /\ store = storeAtStart

\* C6: a script exits with a non-zero status exactly when its configuration
\* is absent or an error reached its top-level catch.
C6_ExitStatus ==
  (script \in { "loader", "activator" } /\ pc = "exited") =>
    (exitCode # 0 <=> (~config \/ thrown))

\* the row mapExerciseToDatabase owes to a source record
RowOwed(src, row) ==
  /\ DOMAIN row = { "exercise_id", "name", "gif_path", "target_muscles", "body_parts",
                    "equipments", "secondary_muscles", "instructions", "is_active" }
  /\ row.exercise_id = src.exerciseId
  /\ row.name = src.name
  /\ row.gif_path = ("gifs/" \o src.exerciseId) \o ".gif"
  /\ row.is_active = FALSE
  /\ \A p \in { << "targetMuscles", "target_muscles" >>, << "bodyParts", "body_parts" >>,
                << "equipments", "equipments" >>,
                << "secondaryMuscles", "secondary_muscles" >>,
                << "instructions", "instructions" >> } :
        IF p[1] \in DOMAIN src THEN row[p[2]] = src[p[1]] ELSE row[p[2]] = <<>>

\* C7: every record read is mapped to the row owed to it, and every row of an
\* insert call of the loader is inactive.
C7_RowMapping ==
  script = "loader" =>
    /\ fileRead = "ok" =>
          /\ Len(databaseExercises) = Len(jsonExercises)
          /\ \A k \in 1..Len(jsonExercises) : RowOwed(jsonExercises[k], databaseExercises[k])
    /\ \A c \in 1..Len(insertCalls) : \A k \in 1..Len(insertCalls[c].batch) :
          /\ insertCalls[c].batch[k].is_active = FALSE
          /\ \E j \in 1..Len(jsonExercises) : RowOwed(jsonExercises[j], insertCalls[c].batch[k])

\* a record with missing list attributes was mapped and its row inserted
C7_Witness ==
  /\ script = "loader" /\ fileRead = "ok"
  /\ \E c \in 1..Len(insertCalls) : \E k \in 1..Len(insertCalls[c].batch) :
        \E j \in 1..Len(jsonExercises) :
          /\ "targetMuscles" \notin DOMAIN jsonExercises[j]
          /\ insertCalls[c].batch[k].exercise_id = jsonExercises[j].exerciseId
          /\ insertCalls[c].batch[k].target_muscles = <<>>
          /\ insertCalls[c].outcome = "ok"
  /\ \E j \in 1..Len(jsonExercises) : "targetMuscles" \in DOMAIN jsonExercises[j]

SelectFailed == script = "loader" /\ selectOutcome \in { "error", "throw" }

\* C8 as stated: a run whose select of the existing identifiers failed does
\* not abort, submits every transformed row of the file and ends with the
\* inserted/failed summary (stated for the runs whose file can be read).
C8_QueryFailureAsStated ==
  (SelectFailed /\ pc = "exited" /\ fileRead # "failed") =>
    /\ exitCode = 0
    /\ fileRead = "ok"
    /\ Flatten(insertCalls) = databaseExercises
    /\ Len(databaseExercises) = Len(file)
    /\ summary # <<>>

\* C8 amended: a failed select of the existing identifiers does not end the
\* run: the existing set is empty and the run goes on to read the file; when
\* the file is read, every transformed row is handed to insertion and, by the
\* end of the run, submitted; when the file holds at least one record the run
\* ends with the inserted/failed summary and status 0.
C8_QueryFailure ==
  SelectFailed =>
    /\ existingExercises = <<>>
    /\ pc = "exited" => fileRead # "none"
    /\ (pc = "exited" /\ fileRead = "failed") => (exitCode = 1 /\ insertCalls = <<>>)
    /\ fileRead = "ok" =>
          /\ Len(databaseExercises) = Len(file)
          /\ exercises = databaseExercises
    /\ (pc = "exited" /\ fileRead = "ok") =>
          /\ exitCode = 0
          /\ Flatten(insertCalls) = databaseExercises
          /\ Len(file) > 0 =>
                summary = << [ inserted |-> insertedCount, failed |-> errorCount ] >>
          /\ insertedCount + errorCount = Len(file)

\* the select failed against a table that held the file's rows, and the run
\* still submitted them and printed its summary
C8_Witness ==
  /\ SelectFailed /\ selectOutcome = "error" /\ pc = "exited"
  /\ storeAtStart # <<>> /\ FileHeld
  /\ Len(file) = MaxFileLen
  /\ Flatten(insertCalls) = databaseExercises
  /\ summary # <<>> /\ exitCode = 0

\* C9: the activator searches the names of its list in list order, once each,
\* issues at most one update per name, after that name's search, and issues
\* the count query only after the last name; a run in which no call throws
\* searches every name and ends with the count query.
C9_FailureIsolation ==
  script = "activator" =>
    /\ Len(searchLog) <= Len(BASIC_EXERCISES)
    /\ searchLog = SubSeq(BASIC_EXERCISES, 1, Len(searchLog))
    /\ \A u \in 1..Len(updateLog) : updateLog[u].idx <= Len(searchLog)
    /\ \A u, v \in 1..Len(updateLog) : u < v => updateLog[u].idx < updateLog[v].idx
    /\ countQueried => searchLog = BASIC_EXERCISES
    /\ (pc = "exited" /\ config /\ ~thrown) => (countQueried /\ searchLog = BASIC_EXERCISES)

\* a run with a failed update, a succeeded update and a failed last search
\* ended with the count query
C9_Witness ==
  /\ script = "activator" /\ pc = "exited" /\ ~thrown /\ countQueried
  /\ lastSearch = "error"
  /\ \E u, v \in 1..Len(updateLog) :
        updateLog[u].outcome = "error" /\ updateLog[v].outcome = "ok" /\ u < v
  /\ searchLog = BASIC_EXERCISES

\* C10: no step removes a row or changes one, but for an update of the
\* activator that sets is_active on the one inactive row its search returned
\* first; rows enter the table inactive, by an insert of the loader.
C10_OneWayActive ==
  [][ /\ Len(store') >= Len(store)
      /\ \A k \in 1..Len(store) :
            \/ store'[k] = store[k]
            \/ /\ script = "activator" /\ pc = "update"
               /\ exercise # <<>> /\ store[k].id = exercise[1].id
               /\ store[k].is_active = FALSE
               /\ Contains(LowerStr(store[k].name), LowerStr(BASIC_EXERCISES[idx]))
               /\ store'[k] = [ store[k] EXCEPT !.is_active = TRUE ]
      /\ Cardinality({ k \in 1..Len(store) : store'[k] # store[k] }) <= 1
      /\ \A k \in (Len(store) + 1)..Len(store') :
            /\ script = "loader" /\ pc = "insert"
            /\ store'[k].is_active = FALSE ]_vars

\* the activator has set one of two matching rows active and left the other
C10_Witness ==
  /\ script = "activator" /\ updateLog # <<>>
  /\ updateLog[Len(updateLog)].outcome = "ok"
  /\ \E a, b \in 1..Len(store) :
        /\ store[a].is_active /\ ~storeAtStart[a].is_active
        /\ ~store[b].is_active
        /\ Contains(LowerStr(store[b].name), LowerStr(BASIC_EXERCISES[1]))

====
